---- MODULE Spec2Model ----
(***************************************************************************)
(* Backup/restore coordination of the API template: the file based         *)
(* operation lock, the restore progress files and the create_backup_to_temp *)
(* and restore_backup calls of Neo4jBackupService and BackupService, run by *)
(* concurrent request workers that share one lock file.                     *)
(*                                                                         *)
(* Atomicity: one action is one file-system or database operation of a      *)
(* call.  _acquire_lock is three steps (read and decide, open-for-write     *)
(* which truncates the file, write of the JSON text), because               *)
(* Path.write_text is open('w') followed by write; check_operation_lock and *)
(* _release_lock are one step each.  Steps of a call that touch nothing     *)
(* shared are joined with the step that follows them.                       *)
(***************************************************************************)
EXTENDS Integers, Sequences, FiniteSets, TLC

\* ------------------------------------------------------------------------
\* Program constants
LOCK_TIMEOUT == 7200
max_warnings_to_collect == 100
progress_every == 100
\* LOCK_TIMEOUT of the database lock module, settings.DB_LOCK_TIMEOUT_SECONDS:
\* the settings class does not set it; taken as long as the operation
\* lock's timeout
DB_LOCK_TIMEOUT == LOCK_TIMEOUT

\* Bounds of the model: clock advances, statements of an artifact restored
\* while another worker is active, statements of an artifact restored alone
MaxTicks == 1
MaxConcStmts == 1
MaxStmts == 3
\* statements of a long artifact: more than max_warnings_to_collect
MaxLongStmts == 102
\* nodes of a source graph
MaxNodes == 2
\* characters of a string value
MaxStrLen == 3
\* characters of a property string and statements of an artifact written as text
MaxStreamLen == 2
MaxStreamStmts == 2

Proc == {1, 2}
Service == {"neo4j", "sql"}
None == "None"

\* time.time() advances by the timeout or by one second less, so that both
\* sides of the expiry comparison are reached
TickSteps == {LOCK_TIMEOUT - 1, LOCK_TIMEOUT}

\* ------------------------------------------------------------------------
\* Content of operation.lock.  kind "corrupt" is a file whose text json.loads
\* rejects (the empty file between open('w') and write).  owner records the
\* worker whose call wrote the record; it is not part of the JSON object.
AbsentLock == [kind |-> "absent", operation |-> None, timestamp |-> 0, owner |-> 0]
CorruptLock == [kind |-> "corrupt", operation |-> None, timestamp |-> 0, owner |-> 0]
LockRecord(operation, t, p) ==
    [kind |-> "valid", operation |-> operation, timestamp |-> t, owner |-> p]

\* Content of restore_status.json
AbsentStatus ==
    [kind |-> "absent", status |-> None, current |-> 0, total |-> 0, warnings_count |-> 0]
\* restore_status.json between the open('w') and the write of write_text: an
\* empty file, which json.loads rejects.  The fields keep the record that was
\* truncated away (none if the file is new); no reader sees them.
Truncated(sf) == [sf EXCEPT !.kind = "truncated"]
ProgressData(status, current, total, warnings) ==
    [kind |-> "valid", status |-> status, current |-> current, total |-> total,
     warnings_count |-> Len(warnings)]

\* A collected warning: "Failed to execute statement {index}/{total}: ..."
Warning(k, n) == [index |-> k, total |-> n]

\* One entry of the database operations a call has run
DbOp(op, k, ok) == [op |-> op, k |-> k, ok |-> ok]

\* Local state of a worker that is not inside a call
IdleCall ==
    [pc |-> "idle", op |-> None, lock_operation |-> None, check_unlinked |-> FALSE,
     acquired |-> FALSE, ts |-> -1, fd_live |-> FALSE, rel_existed |-> "unset",
     file_exists |-> FALSE, nstmts |-> 0, fails |-> {}, i |-> 0,
     warnings |-> <<>>, executed |-> <<>>, outcome |-> "none", safety |-> "none",
     value |-> <<>>, formatted |-> <<>>, filename |-> None, file_touched |-> FALSE,
     node_count |-> 0, relationship_count |-> 0, method |-> None, path |-> <<>>,
     st_open |-> FALSE, status_data |-> AbsentStatus, status_warnings |-> <<>>]

\* The graph store.  A node has a set of labels and a set of properties; a
\* relationship joins the nodes at two positions of the node list.
Labels == {"Person"}
Props == {"name"}
Node(labels, props) == [labels |-> labels, props |-> props]
Rel(a, b) == [a |-> a, b |-> b]
EmptyGraph == [nodes |-> <<>>, rels |-> <<>>]

\* no artifact downloaded yet; source is the graph an artifact was exported from
NoArtifact == [exported |-> FALSE, statements |-> <<>>, source |-> EmptyGraph]

VARIABLES
    svc,            \* which service the deployment runs: "neo4j" or "sql"
    now,            \* time.time(), seconds
    ticks,          \* number of clock advances so far
    lock_file,      \* operation.lock
    status_file,    \* restore_status.json
    warnings_file,  \* restore_warnings.json: <<>> when absent, else the list
    calls,          \* per worker: the call it is running and its locals
    db,             \* the graph in the Neo4j store: nodes and relationships;
                    \* with SQLite the database file and its .db.backup copy
    artifact,       \* the backup artifact the client has downloaded
    database_lock   \* api_db_lock/database.lock, the lock of the write middleware

vars == <<svc, now, ticks, lock_file, status_file, warnings_file, calls, db, artifact,
          database_lock>>

\* ------------------------------------------------------------------------
\* Lock coordinator: the decisions of the three methods as functions of the
\* file content and the clock

\* acquire_lock_read with the timeout test written as <=
acquire_lock_read_inclusive(l, t) ==
    IF l.kind = "absent" THEN "write"
    ELSE IF l.kind = "corrupt" THEN "except"
    ELSE IF t - l.timestamp <= LOCK_TIMEOUT THEN "false"
    ELSE "write"

\* _acquire_lock, the read half: "false" = return False, "except" = json.loads
\* or .get raised and the handler returns True without writing, "write" = go
\* on to write the new record
acquire_lock_read(l, t) ==
    IF l.kind = "absent" THEN "write"
    ELSE IF l.kind = "corrupt" THEN "except"
    ELSE IF t - l.timestamp < LOCK_TIMEOUT THEN "false"
    ELSE "write"

\* check_operation_lock with the timeout test written as >
check_operation_lock_strict(l, t) ==
    IF l.kind = "absent" THEN [result |-> None, file |-> l, unlinked |-> FALSE]
    ELSE IF l.kind = "corrupt" THEN [result |-> None, file |-> l, unlinked |-> FALSE]
    ELSE IF t - l.timestamp > LOCK_TIMEOUT
         THEN [result |-> None, file |-> AbsentLock, unlinked |-> TRUE]
    ELSE [result |-> l.operation, file |-> l, unlinked |-> FALSE]

\* check_operation_lock: result and lock file afterwards
check_operation_lock(l, t) ==
    IF l.kind = "absent" THEN [result |-> None, file |-> l, unlinked |-> FALSE]
    ELSE IF l.kind = "corrupt" THEN [result |-> None, file |-> l, unlinked |-> FALSE]
    ELSE IF t - l.timestamp >= LOCK_TIMEOUT
         THEN [result |-> None, file |-> AbsentLock, unlinked |-> TRUE]
    ELSE [result |-> l.operation, file |-> l, unlinked |-> FALSE]

\* _release_lock that unlinks only a file it can parse
release_lock_parsed_only(l) == IF l.kind = "valid" THEN AbsentLock ELSE l

\* _release_lock: lock file afterwards
release_lock(l) == IF l.kind # "absent" THEN AbsentLock ELSE l

\* an unlink of the lock file detaches every handle that is open for writing:
\* the pending write then lands in the unlinked inode
DetachWriters(c, p) ==
    [q \in Proc |-> IF q # p /\ c[q].fd_live
                    THEN [c[q] EXCEPT !.fd_live = FALSE] ELSE c[q]]

\* _update_restore_progress: status file afterwards / warnings file afterwards
update_status_file(status, current, total, warnings) ==
    ProgressData(status, current, total, warnings)
update_warnings_file(wf, warnings) == IF warnings # <<>> THEN warnings ELSE wf

\* ------------------------------------------------------------------------
\* a fresh deployment of service s: no lock, no progress record, idle workers
InitService(s) ==
    /\ database_lock = AbsentLock
    /\ db = EmptyGraph
    /\ artifact = NoArtifact
    /\ svc = s
    /\ now = 0
    /\ ticks = 0
    /\ lock_file = AbsentLock
    /\ status_file = AbsentStatus
    /\ warnings_file = <<>>
    /\ calls = [p \in Proc |-> IdleCall]

Init == InitService("neo4j")
InitSql == InitService("sql")

Tick ==
    /\ ticks < MaxTicks
    /\ \E d \in TickSteps : now' = now + d
    /\ ticks' = ticks + 1
    /\ UNCHANGED <<database_lock, db, artifact, svc, lock_file, status_file, warnings_file, calls>>

\* ------------------------------------------------------------------------
\* Entry of the calls

\* create_backup_to_temp is called
StartBackup(p) ==
    /\ calls[p].pc = "idle"
    /\ calls' = [calls EXCEPT ![p] = [IdleCall EXCEPT !.pc = "check", !.op = "backup"]]
    /\ UNCHANGED <<database_lock, db, artifact, svc, now, ticks, lock_file, status_file, warnings_file>>

\* restore_backup(backup_file) is called: if not backup_file.exists(): raise
StartRestore(p) ==
    /\ calls[p].pc = "idle"
    /\ \E ex \in BOOLEAN :
          calls' = [calls EXCEPT ![p] =
                [IdleCall EXCEPT !.op = "restore", !.file_exists = ex,
                                 !.pc = IF ex THEN "check" ELSE "done",
                                 !.outcome = IF ex THEN "none" ELSE "FileNotFound"]]
    /\ UNCHANGED <<database_lock, db, artifact, svc, now, ticks, lock_file, status_file, warnings_file>>

\* a route calls check_operation_lock on its own (restore-upload, restore-status)
StartPoll(p) ==
    /\ calls[p].pc = "idle"
    /\ calls' = [calls EXCEPT ![p] = [IdleCall EXCEPT !.pc = "check", !.op = "poll"]]
    /\ UNCHANGED <<database_lock, db, artifact, svc, now, ticks, lock_file, status_file, warnings_file>>

\* POST /backup/restore/{filename} and POST /backup/restore-upload of the
\* relational routes, with the query parameter create_safety_backup.  The
\* first calls backup_service.get_backup_path, which BackupService does not
\* define (AttributeError); the second stores the upload in a temporary file
\* and calls restore_backup(temp_file, create_safety_backup=...), a keyword
\* restore_backup(self, backup_file) does not take (TypeError).  Both are
\* caught by "except Exception" and answered with 500; the upload route's
\* finally clause unlinks the temporary file.  No safety backup is attempted.
RouteRestoreSql(p) ==
    /\ svc = "sql"
    /\ calls[p].pc = "idle"
    /\ \E route \in {"restore", "restore-upload"}, create_safety_backup \in BOOLEAN :
          calls' = [calls EXCEPT ![p] =
                [IdleCall EXCEPT !.op = "restore", !.pc = "done",
                                 !.safety = IF create_safety_backup THEN "requested"
                                            ELSE "not_requested",
                                 !.outcome = IF route = "restore" THEN "AttributeError"
                                             ELSE "TypeError"]]
    /\ UNCHANGED <<database_lock, db, artifact, svc, now, ticks, lock_file, status_file, warnings_file>>

\* the backup filenames a client sends: a stored artifact, a name that is not
\* stored, and a path that leaves the backup directory
Filenames == {"backup_20241110_120000.gz", "missing.gz", "../../etc/passwd"}

\* GET /backup/download/{filename}, DELETE /backup/delete/{filename} and
\* POST /backup/restore/{filename}: the handlers start with
\* backup_service.get_backup_path(filename) or
\* backup_service.delete_backup(filename).  Neither service class defines
\* these methods, so the attribute lookup raises AttributeError, which the
\* handler's "except Exception" answers with 500; the branches for
\* FileNotFoundError (404) and ValueError (400) are never taken and no file
\* is opened.
RouteBackupFile(p) ==
    /\ calls[p].pc = "idle"
    /\ \E route \in {"download", "delete", "restore"}, filename \in Filenames :
          calls' = [calls EXCEPT ![p] =
                [IdleCall EXCEPT !.op = route, !.filename = filename,
                                 !.file_touched = FALSE,
                                 !.outcome = "AttributeError", !.pc = "done"]]
    /\ UNCHANGED <<database_lock, db, artifact, svc, now, ticks, lock_file, status_file, warnings_file>>

\* ------------------------------------------------------------------------
\* Lock steps of a call

\* the lock check moved inside the try block: a conflict then passes the
\* except and finally clauses
CheckInsideTry(p) ==
    /\ calls[p].pc = "check"
    /\ LET r == check_operation_lock(lock_file, now)
           conflict == r.result # None
           c == IF r.unlinked THEN DetachWriters(calls, p) ELSE calls
       IN /\ lock_file' = r.file
          /\ calls' = [c EXCEPT ![p] =
                [calls[p] EXCEPT !.lock_operation = r.result,
                                 !.check_unlinked = r.unlinked,
                                 !.pc = IF calls[p].op \in {"poll", "status"} THEN "done"
                                        ELSE IF ~conflict THEN "acquire"
                                        ELSE IF calls[p].op = "restore" THEN "r_except"
                                        ELSE "finally",
                                 !.outcome = IF calls[p].op \in {"poll", "status"} THEN "ok"
                                             ELSE IF conflict THEN "LockConflict"
                                             ELSE "none"]]
    /\ UNCHANGED <<database_lock, db, artifact, svc, now, ticks, status_file, warnings_file>>

\* lock_operation = self.check_operation_lock(); if lock_operation: raise
Check(p) ==
    /\ calls[p].pc = "check"
    /\ LET r == check_operation_lock(lock_file, now)
           conflict == r.result # None
           c == IF r.unlinked THEN DetachWriters(calls, p) ELSE calls
       IN /\ lock_file' = r.file
          /\ calls' = [c EXCEPT ![p] =
                [calls[p] EXCEPT !.lock_operation = r.result,
                                 !.check_unlinked = r.unlinked,
                                 !.pc = IF calls[p].op \in {"poll", "status"} THEN "done"
                                        ELSE IF conflict THEN "done" ELSE "acquire",
                                 !.outcome = IF calls[p].op \in {"poll", "status"} THEN "ok"
                                             ELSE IF conflict THEN "LockConflict"
                                             ELSE "none"]]
    /\ UNCHANGED <<database_lock, db, artifact, svc, now, ticks, status_file, warnings_file>>

\* pc of the first statement after a successful _acquire_lock
AfterAcquire(p) ==
    IF calls[p].op = "restore" THEN "r_init" ELSE "b_body"

\* _acquire_lock: exists, read_text, json.loads, the timeout test
AcquireRead(p) ==
    /\ calls[p].pc = "acquire"
    /\ LET d == acquire_lock_read(lock_file, now)
       IN calls' = [calls EXCEPT ![p] =
             IF d = "false"
             THEN [calls[p] EXCEPT !.pc = "done", !.outcome = "AcquireFailed"]
             ELSE IF d = "except"
             THEN [calls[p] EXCEPT !.pc = AfterAcquire(p), !.acquired = TRUE]
             ELSE [calls[p] EXCEPT !.pc = "acq_open"]]
    /\ UNCHANGED <<database_lock, db, artifact, svc, now, ticks, lock_file, status_file, warnings_file>>

\* lock_data = {"operation": operation, "timestamp": time.time()} and
\* write_text, first half: open(lock_file, 'w') creates or truncates the file
AcquireOpen(p) ==
    /\ calls[p].pc = "acq_open"
    /\ lock_file' = CorruptLock
    /\ calls' = [calls EXCEPT ![p] =
          [calls[p] EXCEPT !.pc = "acq_write", !.ts = now, !.fd_live = TRUE]]
    /\ UNCHANGED <<database_lock, db, artifact, svc, now, ticks, status_file, warnings_file>>

\* write_text, second half: the JSON text is written; return True
AcquireWrite(p) ==
    /\ calls[p].pc = "acq_write"
    /\ lock_file' = IF calls[p].fd_live
                    THEN LockRecord(calls[p].op, calls[p].ts, p)
                    ELSE lock_file
    /\ calls' = [calls EXCEPT ![p] =
          [calls[p] EXCEPT !.pc = AfterAcquire(p), !.acquired = TRUE, !.fd_live = FALSE]]
    /\ UNCHANGED <<database_lock, db, artifact, svc, now, ticks, status_file, warnings_file>>

\* finally: self._release_lock(); in restore_backup also
\* if backup_file.exists(): backup_file.unlink().  The call then returns its
\* result or raises; of its locals only the returned warnings are kept
Release(p) ==
    /\ calls[p].pc = "finally"
    /\ lock_file' = release_lock(lock_file)
    /\ calls' = [DetachWriters(calls, p) EXCEPT ![p] =
          [IdleCall EXCEPT !.op = calls[p].op, !.acquired = calls[p].acquired,
                           !.outcome = calls[p].outcome,
                           !.warnings = calls[p].warnings,
                           !.rel_existed = IF lock_file.kind # "absent" THEN "yes" ELSE "no",
                           !.file_exists = FALSE,
                           !.pc = "done"]]
    /\ UNCHANGED <<database_lock, db, artifact, svc, now, ticks, status_file, warnings_file>>

\* the call has returned or raised; the worker is free again
Return(p) ==
    /\ calls[p].pc = "done"
    /\ calls' = [calls EXCEPT ![p] = IdleCall]
    /\ UNCHANGED <<database_lock, db, artifact, svc, now, ticks, lock_file, status_file, warnings_file>>

\* ------------------------------------------------------------------------
\* create_backup_to_temp after the lock is held

\* Neo4jBackupService creates the temporary file between _acquire_lock and
\* the try block: an OSError there leaves the function without passing the
\* finally clause.  BackupService creates it inside the try block.  Then the
\* export: on success the artifact is returned, on an exception it is raised;
\* both pass the finally clause.
BackupBody(p) ==
    /\ calls[p].pc = "b_body"
    /\ \E result \in {"ok", "failed", "TempFileError"} :
          /\ (result = "TempFileError") => (svc = "neo4j")
          /\ calls' = [calls EXCEPT ![p] =
                [calls[p] EXCEPT !.outcome = result,
                                 !.pc = IF result = "TempFileError" THEN "done"
                                        ELSE "finally"]]
    /\ UNCHANGED <<database_lock, db, artifact, svc, now, ticks, lock_file, status_file, warnings_file>>

\* ------------------------------------------------------------------------
\* restore_backup after the lock is held

\* the next step of p's restore calls _update_restore_progress
WillUpdate(p) ==
    \/ calls[p].pc \in {"r_init", "r_clear", "r_drop", "r_native", "r_except"}
    \/ /\ calls[p].pc = "r_loop"
       /\ \/ calls[p].i = calls[p].nstmts
          \/ /\ (calls[p].i + 1) \notin calls[p].fails
             /\ (calls[p].i + 1) % progress_every = 0

\* self.status_file.write_text(...), first half: open(status_file, 'w')
\* truncates the file; the step that follows writes the JSON text.  Taken
\* where a concurrent reader can see the file in between.
ProgressOpen(p) ==
    /\ WillUpdate(p)
    /\ ~calls[p].st_open
    /\ status_file' = Truncated(status_file)
    /\ calls' = [calls EXCEPT ![p] = [calls[p] EXCEPT !.st_open = TRUE]]
    /\ UNCHANGED <<database_lock, db, artifact, svc, now, ticks, lock_file, warnings_file>>

\* _update_restore_progress(status="in_progress", current=0, total=0, ...)
RestoreInit(p) ==
    /\ calls[p].pc = "r_init"
    /\ status_file' = update_status_file("in_progress", 0, 0, <<>>)
    /\ warnings_file' = update_warnings_file(warnings_file, <<>>)
    /\ calls' = [calls EXCEPT ![p] =
          [calls[p] EXCEPT !.st_open = FALSE, !.pc = IF svc = "neo4j" THEN "r_clear" ELSE "r_drop"]]
    /\ UNCHANGED <<database_lock, db, artifact, svc, now, ticks, lock_file>>

\* graph restore that clears the database before it reads the artifact: an
\* unreadable artifact is noticed after the data is gone
RestoreClearBeforeRead(p, artifacts) ==
    /\ calls[p].pc = "r_clear"
    /\ \/ /\ ~calls[p].st_open
          /\ calls' = [calls EXCEPT ![p] =
                [calls[p] EXCEPT !.executed = Append(@, DbOp("clear", 0, TRUE)),
                                 !.pc = "r_except"]]
          /\ UNCHANGED <<status_file, warnings_file>>
       \/ /\ status_file' = update_status_file("in_progress", 0, 0, <<>>)
          /\ warnings_file' = update_warnings_file(warnings_file, <<>>)
          /\ calls' = [calls EXCEPT ![p] = [calls[p] EXCEPT !.st_open = FALSE, !.pc = "r_except"]]
       \/ \E a \in artifacts :
          /\ status_file' = update_status_file("in_progress", 0, a.n, <<>>)
          /\ warnings_file' = update_warnings_file(warnings_file, <<>>)
          /\ calls' = [calls EXCEPT ![p] =
                [calls[p] EXCEPT !.st_open = FALSE, !.executed = Append(@, DbOp("clear", 0, TRUE)),
                                 !.nstmts = a.n, !.fails = a.f, !.i = 0, !.pc = "r_loop"]]
    /\ UNCHANGED <<database_lock, db, artifact, svc, now, ticks, lock_file>>

\* graph restore: read (and decompress) the artifact and open the driver; then
\* progress "Clearing...", MATCH (n) DETACH DELETE n, split the text into its
\* n statements (those in f will fail), progress "Restoring {total} statements..."
RestoreClearOf(p, artifacts) ==
    /\ calls[p].pc = "r_clear"
    /\ \/ /\ ~calls[p].st_open
          /\ calls' = [calls EXCEPT ![p] = [calls[p] EXCEPT !.pc = "r_except"]]
          /\ UNCHANGED <<status_file, warnings_file>>
       \/ /\ status_file' = update_status_file("in_progress", 0, 0, <<>>)
          /\ warnings_file' = update_warnings_file(warnings_file, <<>>)
          /\ calls' = [calls EXCEPT ![p] = [calls[p] EXCEPT !.st_open = FALSE, !.pc = "r_except"]]
       \/ \E a \in artifacts :
          /\ status_file' = update_status_file("in_progress", 0, a.n, <<>>)
          /\ warnings_file' = update_warnings_file(warnings_file, <<>>)
          /\ calls' = [calls EXCEPT ![p] =
                [calls[p] EXCEPT !.st_open = FALSE, !.executed = Append(@, DbOp("clear", 0, TRUE)),
                                 !.nstmts = a.n, !.fails = a.f, !.i = 0, !.pc = "r_loop"]]
    /\ UNCHANGED <<database_lock, db, artifact, svc, now, ticks, lock_file>>

\* the artifacts of up to maxn statements, each with any set of statements
\* the database will reject
Artifacts(maxn) ==
    UNION {{[n |-> n, f |-> f] : f \in SUBSET (1..n)} : n \in 0..maxn}

\* long artifacts: every statement is rejected, every statement but the one
\* at the progress interval, every statement but the first, or none
LongArtifacts ==
    {[n |-> n, f |-> f] : n \in {MaxLongStmts},
                          f \in {1..MaxLongStmts, (1..MaxLongStmts) \ {progress_every},
                                 2..MaxLongStmts, {}}}

\* graph restore of an artifact of up to maxn statements
RestoreClear(p, maxn) == RestoreClearOf(p, Artifacts(maxn))

\* graph restore of a long artifact
RestoreClearLong(p) == RestoreClearOf(p, LongArtifacts)

\* the artifacts restored while another call may run: MaxConcStmts statements,
\* any of them rejected by the database
ConcArtifacts == {a \in Artifacts(MaxConcStmts) : a.n = MaxConcStmts}

\* graph restore of such an artifact
RestoreClearConc(p) == RestoreClearOf(p, ConcArtifacts)

\* collect_warning with the cap tested after the append
collect_warning_off_by_one(warnings, k, n) ==
    IF Len(warnings) <= max_warnings_to_collect
    THEN Append(warnings, Warning(k, n)) ELSE warnings

\* collect_warning that names the statement by its 0-based index
collect_warning_zero_based(warnings, k, n) ==
    IF Len(warnings) < max_warnings_to_collect
    THEN Append(warnings, Warning(k - 1, n)) ELSE warnings

\* the warnings list after statement k of n raised
collect_warning(warnings, k, n) ==
    IF Len(warnings) < max_warnings_to_collect
    THEN Append(warnings, Warning(k, n)) ELSE warnings

\* one iteration of "for i, statement in enumerate(statements)"
RestoreStatement(p) ==
    /\ calls[p].pc = "r_loop"
    /\ calls[p].i < calls[p].nstmts
    /\ LET k == calls[p].i + 1
           n == calls[p].nstmts
           raised == k \in calls[p].fails
           w == IF raised THEN collect_warning(calls[p].warnings, k, n)
                ELSE calls[p].warnings
           report == ~raised /\ k % progress_every = 0
       IN /\ calls' = [calls EXCEPT ![p] =
                [calls[p] EXCEPT !.st_open = FALSE, !.executed = Append(@, DbOp("stmt", k, ~raised)),
                                 !.warnings = w, !.i = k]]
          /\ status_file' = IF report THEN update_status_file("in_progress", k, n, w)
                            ELSE status_file
          /\ warnings_file' = IF report THEN update_warnings_file(warnings_file, w)
                              ELSE warnings_file
    /\ UNCHANGED <<database_lock, db, artifact, svc, now, ticks, lock_file>>

\* completion that reports the statements that succeeded as current
RestoreCompletedCountsSucceeded(p) ==
    /\ calls[p].pc = "r_loop"
    /\ calls[p].i = calls[p].nstmts
    /\ status_file' = update_status_file("completed",
                                         calls[p].nstmts - Cardinality(calls[p].fails),
                                         calls[p].nstmts, calls[p].warnings)
    /\ warnings_file' = update_warnings_file(warnings_file, calls[p].warnings)
    /\ calls' = [calls EXCEPT ![p] = [calls[p] EXCEPT !.st_open = FALSE, !.pc = "finally", !.outcome = "ok"]]
    /\ UNCHANGED <<database_lock, db, artifact, svc, now, ticks, lock_file>>

\* after the loop: driver.close(), progress "completed", return warnings
RestoreCompleted(p) ==
    /\ calls[p].pc = "r_loop"
    /\ calls[p].i = calls[p].nstmts
    /\ status_file' = update_status_file("completed", calls[p].nstmts, calls[p].nstmts,
                                         calls[p].warnings)
    /\ warnings_file' = update_warnings_file(warnings_file, calls[p].warnings)
    /\ calls' = [calls EXCEPT ![p] = [calls[p] EXCEPT !.st_open = FALSE, !.pc = "finally", !.outcome = "ok"]]
    /\ UNCHANGED <<database_lock, db, artifact, svc, now, ticks, lock_file>>

\* relational restore whose drop failure is logged and passed over: the
\* native restore runs on the tables that are still there
RestoreDropContinues(p) ==
    /\ calls[p].pc = "r_drop"
    /\ status_file' = update_status_file("in_progress", 0, 0, <<>>)
    /\ warnings_file' = update_warnings_file(warnings_file, <<>>)
    /\ \E ok \in BOOLEAN :
          calls' = [calls EXCEPT ![p] =
             IF ok THEN [calls[p] EXCEPT !.st_open = FALSE, !.executed = Append(@, DbOp("drop", 0, TRUE)),
                                         !.pc = "r_native"]
             ELSE [calls[p] EXCEPT !.st_open = FALSE, !.pc = "r_native"]]
    /\ UNCHANGED <<database_lock, db, artifact, svc, now, ticks, lock_file>>

\* relational restore: progress "Dropping...", _drop_database()
RestoreDrop(p) ==
    /\ calls[p].pc = "r_drop"
    /\ status_file' = update_status_file("in_progress", 0, 0, <<>>)
    /\ warnings_file' = update_warnings_file(warnings_file, <<>>)
    /\ \E ok \in BOOLEAN :
          calls' = [calls EXCEPT ![p] =
             IF ok THEN [calls[p] EXCEPT !.st_open = FALSE, !.executed = Append(@, DbOp("drop", 0, TRUE)),
                                         !.pc = "r_native"]
             ELSE [calls[p] EXCEPT !.st_open = FALSE, !.pc = "r_except"]]
    /\ UNCHANGED <<database_lock, db, artifact, svc, now, ticks, lock_file>>

\* relational restore: progress "Restoring...", the native restore utility,
\* then progress "completed"
RestoreNative(p) ==
    /\ calls[p].pc = "r_native"
    /\ warnings_file' = update_warnings_file(warnings_file, <<>>)
    /\ \E ok \in BOOLEAN :
          IF ok
          THEN /\ status_file' = update_status_file("completed", 0, 0, <<>>)
               /\ calls' = [calls EXCEPT ![p] =
                     [calls[p] EXCEPT !.st_open = FALSE, !.executed = Append(@, DbOp("native", 0, TRUE)),
                                      !.pc = "finally", !.outcome = "ok"]]
          ELSE /\ status_file' = update_status_file("in_progress", 0, 0, <<>>)
               /\ calls' = [calls EXCEPT ![p] = [calls[p] EXCEPT !.st_open = FALSE, !.pc = "r_except"]]
    /\ UNCHANGED <<database_lock, db, artifact, svc, now, ticks, lock_file>>

\* ------------------------------------------------------------------------
\* SQLite: the database is the file settings.DB_NAME.  db.file is its content
\* ("absent", the tables before any restore, no tables, the tables of the
\* artifact, or a partly written file), db.backup the content of the
\* .db.backup copy, db.before the content when the restore began its work.
SqliteDb(file, backup, before) == [file |-> file, backup |-> backup, before |-> before]

\* _drop_database -> _drop_sqlite_tables: nothing to do without a file;
\* otherwise every table is dropped and the change committed, or sqlite3
\* raises and nothing is committed
SqliteDrop(p) ==
    /\ calls[p].pc = "r_drop"
    /\ status_file' = update_status_file("in_progress", 0, 0, <<>>)
    /\ warnings_file' = update_warnings_file(warnings_file, <<>>)
    /\ \E ok \in BOOLEAN :
          /\ (db.file = "absent") => ok
          /\ db' = SqliteDb(IF ok /\ db.file # "absent" THEN "no_tables" ELSE db.file,
                            db.backup, db.file)
          /\ calls' = [calls EXCEPT ![p] =
                IF ok THEN [calls[p] EXCEPT !.executed = Append(@, DbOp("drop", 0, TRUE)),
                                            !.pc = "r_native"]
                ELSE [calls[p] EXCEPT !.pc = "r_except"]]
    /\ UNCHANGED <<database_lock, artifact, svc, now, ticks, lock_file>>

\* the .db.backup copy after "if db_file.exists(): shutil.copy2(db_file, backup_current)"
sqlite_backup_current(d) == IF d.file # "absent" THEN d.file ELSE d.backup

\* the except clause of _restore_sqlite: "if db_file.exists(): if
\* backup_current.exists(): shutil.copy2(backup_current, db_file)", for the
\* file content the failed copy left and the backup copy
sqlite_rollback(left, backup) ==
    IF left # "absent" /\ backup # "absent" THEN backup ELSE left

\* _restore_sqlite: the current file is copied to .db.backup, then the
\* artifact is copied (or decompressed) over the database file.  When that
\* raises, the file is as it was or partly written, and the except clause
\* copies .db.backup back.  Then progress "completed", or the exception
\* reaches restore_backup's except clause.
SqliteRestore(p) ==
    /\ calls[p].pc = "r_native"
    /\ warnings_file' = update_warnings_file(warnings_file, <<>>)
    /\ LET backup == sqlite_backup_current(db)
       IN \/ /\ db' = SqliteDb("artifact_tables", backup, db.before)
             /\ status_file' = update_status_file("completed", 0, 0, <<>>)
             /\ calls' = [calls EXCEPT ![p] =
                   [calls[p] EXCEPT !.executed = Append(@, DbOp("native", 0, TRUE)),
                                    !.pc = "finally", !.outcome = "ok"]]
          \/ \E left \in {db.file, "partial"} :
             /\ db' = SqliteDb(sqlite_rollback(left, backup), backup, db.before)
             /\ status_file' = update_status_file("in_progress", 0, 0, <<>>)
             /\ calls' = [calls EXCEPT ![p] =
                   [calls[p] EXCEPT !.executed = Append(@, DbOp("native", 0, FALSE)),
                                    !.pc = "r_except"]]
    /\ UNCHANGED <<database_lock, artifact, svc, now, ticks, lock_file>>

\* except Exception: progress "failed", raise
RestoreFailed(p) ==
    /\ calls[p].pc = "r_except"
    /\ status_file' = update_status_file("failed", 0, 0, <<>>)
    /\ warnings_file' = update_warnings_file(warnings_file, <<>>)
    /\ calls' = [calls EXCEPT ![p] = [calls[p] EXCEPT !.st_open = FALSE, !.pc = "finally", !.outcome = "failed"]]
    /\ UNCHANGED <<database_lock, db, artifact, svc, now, ticks, lock_file>>

\* ------------------------------------------------------------------------
\* Graph export and replay

\* "CREATE (:{labels} {{{props_str}}});" for a node
CreateStmt(node) == [kind |-> "create", labels |-> node.labels, props |-> node.props]

\* "MATCH (a:{start_labels} {start_props}), (b:{end_labels} {end_props})
\*  CREATE (a)-[:{rel_type} {rel_props}]->(b);" for a relationship from a to b
MatchCreateStmt(a, b) ==
    [kind |-> "match_create", start_labels |-> a.labels, start_props |-> a.props,
     end_labels |-> b.labels, end_props |-> b.props]

\* cypher_statements of create_backup_to_temp: one CREATE per node of
\* MATCH (n) RETURN n, then one MATCH ... CREATE per relationship
Export(g) ==
    [i \in 1..Len(g.nodes) |-> CreateStmt(g.nodes[i])]
       \o [j \in 1..Len(g.rels) |->
             MatchCreateStmt(g.nodes[g.rels[j].a], g.nodes[g.rels[j].b])]

\* session.run(statement) raises on "(:" followed by an empty label list: the
\* join of no labels is the empty string, and Cypher wants a label name there
Accepted(stmt) ==
    IF stmt.kind = "create" THEN stmt.labels # {}
    ELSE stmt.start_labels # {} /\ stmt.end_labels # {}

\* a node pattern (:labels {props}) matches every node that carries these
\* labels and these property values
Matches(node, labels, props) ==
    labels \subseteq node.labels /\ props \subseteq node.props

RECURSIVE SeqOf(_)
SeqOf(S) ==
    IF S = {} THEN <<>>
    ELSE LET x == CHOOSE y \in S : TRUE IN <<x>> \o SeqOf(S \ {x})

\* the store after session.run(stmt): a rejected statement changes nothing, a
\* CREATE adds its node, a MATCH ... CREATE adds one relationship for every
\* pair of nodes its two patterns match
Run(stmt, g) ==
    IF ~Accepted(stmt) THEN g
    ELSE IF stmt.kind = "create"
         THEN [g EXCEPT !.nodes = Append(@, Node(stmt.labels, stmt.props))]
    ELSE LET as == {i \in 1..Len(g.nodes) :
                       Matches(g.nodes[i], stmt.start_labels, stmt.start_props)}
             bs == {j \in 1..Len(g.nodes) :
                       Matches(g.nodes[j], stmt.end_labels, stmt.end_props)}
         IN [g EXCEPT !.rels = @ \o SeqOf({Rel(i, j) : i \in as, j \in bs})]

\* the store after statements k.. of the artifact have been run on g in order
RECURSIVE Replay(_, _, _)
Replay(stmts, k, g) ==
    IF k > Len(stmts) THEN g ELSE Replay(stmts, k + 1, Run(stmts[k], g))

\* the warnings list after statements k..n, of which those in f raise
RECURSIVE collect_warnings(_, _, _, _)
collect_warnings(w, k, n, f) ==
    IF k > n THEN w
    ELSE collect_warnings(IF k \in f THEN collect_warning(w, k, n) ELSE w, k + 1, n, f)

\* create_backup_to_temp after the lock is held, for the graph in the store:
\* the statements are written to the temporary file, which the client keeps
GraphExport(p) ==
    /\ calls[p].pc = "b_body"
    /\ ~artifact.exported
    /\ artifact' = [exported |-> TRUE, statements |-> Export(db), source |-> db]
    /\ calls' = [calls EXCEPT ![p] = [calls[p] EXCEPT !.outcome = "ok", !.pc = "finally"]]
    /\ UNCHANGED <<database_lock, db, svc, now, ticks, lock_file, status_file, warnings_file>>

\* restore_backup of the downloaded artifact from the read of the file to the
\* "completed" record: MATCH (n) DETACH DELETE n empties the store, then the
\* statements run in file order, each failure collected as a warning
GraphRestore(p) ==
    /\ calls[p].pc = "r_clear"
    /\ artifact.exported
    /\ LET stmts == artifact.statements
           n == Len(stmts)
           f == {k \in 1..n : ~Accepted(stmts[k])}
           w == collect_warnings(<<>>, 1, n, f)
       IN /\ db' = Replay(stmts, 1, EmptyGraph)
          /\ status_file' = update_status_file("completed", n, n, w)
          /\ warnings_file' = update_warnings_file(warnings_file, w)
          /\ calls' = [calls EXCEPT ![p] =
                [calls[p] EXCEPT !.st_open = FALSE, !.nstmts = n, !.fails = f, !.i = n,
                                 !.warnings = w, !.pc = "finally", !.outcome = "ok"]]
    /\ UNCHANGED <<database_lock, artifact, svc, now, ticks, lock_file>>

\* ------------------------------------------------------------------------
\* _format_value on strings.  A string is a sequence of characters: "bs" the
\* backslash, "dq" the double quote, "nl", "cr", "tab" the control characters,
\* and the letters "a", "n", "r", "t".
Chars == {"bs", "dq", "nl", "cr", "tab", "a", "n", "r", "t"}

\* str.replace(old, new) for a one-character old
RECURSIVE replace(_, _, _)
replace(str, old, new) ==
    IF str = <<>> THEN <<>>
    ELSE (IF Head(str) = old THEN new ELSE <<Head(str)>>) \o replace(Tail(str), old, new)

\* _format_value with the backslash escaped after the other characters
format_value_backslash_last(value) ==
    LET e1 == replace(value, "dq", <<"bs", "dq">>)
        e2 == replace(e1, "nl", <<"bs", "n">>)
        e3 == replace(e2, "cr", <<"bs", "r">>)
        e4 == replace(e3, "tab", <<"bs", "t">>)
        e5 == replace(e4, "bs", <<"bs", "bs">>)
    IN <<"dq">> \o e5 \o <<"dq">>

\* _format_value with the newline escaped before the backslash
format_value_newline_first(value) ==
    LET e1 == replace(value, "nl", <<"bs", "n">>)
        e2 == replace(e1, "bs", <<"bs", "bs">>)
        e3 == replace(e2, "dq", <<"bs", "dq">>)
        e4 == replace(e3, "cr", <<"bs", "r">>)
        e5 == replace(e4, "tab", <<"bs", "t">>)
    IN <<"dq">> \o e5 \o <<"dq">>

\* _format_value(value) for a str: the five replace calls in their order, then
\* the double quotes around the result
format_value(value) ==
    LET e1 == replace(value, "bs", <<"bs", "bs">>)
        e2 == replace(e1, "dq", <<"bs", "dq">>)
        e3 == replace(e2, "nl", <<"bs", "n">>)
        e4 == replace(e3, "cr", <<"bs", "r">>)
        e5 == replace(e4, "tab", <<"bs", "t">>)
    IN <<"dq">> \o e5 \o <<"dq">>

\* the strings of up to n characters
Strings(n) == UNION {[1..k -> Chars] : k \in 0..n}

\* the export formats a string property value
FormatValue(p) ==
    /\ calls[p].pc = "idle"
    /\ \E value \in Strings(MaxStrLen) :
          calls' = [calls EXCEPT ![p] =
                [IdleCall EXCEPT !.op = "format", !.value = value,
                                 !.formatted = format_value(value),
                                 !.outcome = "ok", !.pc = "done"]]
    /\ UNCHANGED <<database_lock, db, artifact, svc, now, ticks, lock_file, status_file, warnings_file>>

\* ------------------------------------------------------------------------
\* The artifact as text: written by create_backup_to_temp, split into
\* statements by restore_backup

\* characters of the property strings of the exported graph: a letter, the
\* statement terminator, a newline, and "ls" for the characters that
\* str.splitlines treats as a line boundary besides \n and \r (\v, \f, \x1c,
\* \x1d, \x1e, \x85, U+2028, U+2029)
StreamChars == {"a", ";", "nl", "ls"}

\* the strings of up to n such characters
StreamStrings(n) == UNION {[1..k -> StreamChars] : k \in 0..n}

\* f"CREATE (:{labels} {{{props_str}}});" for a node with one string property;
\* the fixed parts of the text are single symbols
CreateText(value) ==
    <<"CREATE (:Person {name: ">> \o format_value(value) \o <<"})", ";">>

\* "\n".join(cypher_statements)
RECURSIVE Join(_)
Join(stmts) ==
    IF stmts = <<>> THEN <<>>
    ELSE IF Len(stmts) = 1 THEN stmts[1]
    ELSE stmts[1] \o <<"nl">> \o Join(Tail(stmts))

\* the line boundaries of str.splitlines and the whitespace of str.strip
LineBreaks == {"nl", "cr", "ls"}
Whitespace == {" ", "tab", "nl", "cr", "ls"}

\* str.splitlines(): the text is cut at every line boundary (\r\n is one
\* boundary), the boundaries are dropped and no empty last line is returned;
\* cur is the line read so far
RECURSIVE splitlines(_, _)
splitlines(text, cur) ==
    IF text = <<>> THEN (IF cur = <<>> THEN <<>> ELSE <<cur>>)
    ELSE IF Head(text) \in LineBreaks
    THEN LET rest == IF Head(text) = "cr" /\ Len(text) >= 2 /\ text[2] = "nl"
                     THEN Tail(Tail(text)) ELSE Tail(text)
         IN <<cur>> \o splitlines(rest, <<>>)
    ELSE splitlines(Tail(text), Append(cur, Head(text)))

\* str.strip()
RECURSIVE lstrip(_)
lstrip(line) ==
    IF line # <<>> /\ Head(line) \in Whitespace THEN lstrip(Tail(line)) ELSE line

RECURSIVE rstrip(_)
rstrip(line) ==
    IF line # <<>> /\ line[Len(line)] \in Whitespace
    THEN rstrip(SubSeq(line, 1, Len(line) - 1)) ELSE line

strip(line) == rstrip(lstrip(line))

\* the loop "for line in raw_lines": strip, skip empty lines, remove one
\* trailing ';' and strip again, keep the line if anything is left
RECURSIVE statements_of(_)
statements_of(raw_lines) ==
    IF raw_lines = <<>> THEN <<>>
    ELSE LET l1 == strip(Head(raw_lines))
             l2 == IF l1 # <<>> /\ l1[Len(l1)] = ";"
                   THEN strip(SubSeq(l1, 1, Len(l1) - 1)) ELSE l1
         IN (IF l2 # <<>> THEN <<l2>> ELSE <<>>) \o statements_of(Tail(raw_lines))

\* the property values of the k nodes of the exported graph, one node each
StreamValues(k) == [1..k -> StreamStrings(MaxStreamLen)]

\* create_backup_to_temp: the statements are built and written to the file
WriteArtifact(p) ==
    /\ calls[p].pc = "idle"
    /\ \E n \in 0..MaxStreamStmts : \E values \in StreamValues(n) :
          LET emitted == [k \in 1..Len(values) |-> CreateText(values[k])]
          IN calls' = [calls EXCEPT ![p] =
                [IdleCall EXCEPT !.op = "stream", !.pc = "written",
                                 !.value = emitted, !.formatted = Join(emitted)]]
    /\ UNCHANGED <<database_lock, db, artifact, svc, now, ticks, lock_file, status_file, warnings_file>>

\* restore_backup: the text of the file is split into the statements to run
ReadArtifact(p) ==
    /\ calls[p].pc = "written"
    /\ calls' = [calls EXCEPT ![p] =
          [calls[p] EXCEPT !.formatted = statements_of(splitlines(calls[p].formatted, <<>>)),
                           !.outcome = "ok", !.pc = "done"]]
    /\ UNCHANGED <<database_lock, db, artifact, svc, now, ticks, lock_file, status_file, warnings_file>>

\* ------------------------------------------------------------------------
\* GET /backup/restore-status

\* the route calls backup_service.get_restore_status()
StartStatus(p) ==
    /\ calls[p].pc = "idle"
    /\ calls' = [calls EXCEPT ![p] = [IdleCall EXCEPT !.pc = "s_read", !.op = "status"]]
    /\ UNCHANGED <<database_lock, db, artifact, svc, now, ticks, lock_file, status_file, warnings_file>>

\* what json.loads(self.status_file.read_text()) yields: the record, or None
\* when the file is absent (return None) or its text is rejected (the except
\* clause returns None)
read_status(sf) == IF sf.kind = "valid" THEN sf ELSE AbsentStatus

\* get_restore_status, first half: status file and warnings file are read.
\* On None the route goes on to call check_operation_lock itself.
StatusRead(p) ==
    /\ calls[p].pc = "s_read"
    /\ LET status_data == read_status(status_file)
       IN calls' = [calls EXCEPT ![p] =
             [calls[p] EXCEPT !.status_data = status_data,
                              !.status_warnings = IF status_data = AbsentStatus THEN <<>>
                                                  ELSE warnings_file,
                              !.pc = "check"]]
    /\ UNCHANGED <<database_lock, db, artifact, svc, now, ticks, lock_file, status_file, warnings_file>>

\* ------------------------------------------------------------------------
\* GET /backup/stats

\* get_database_stats that refuses to run while an operation holds the lock
GetDatabaseStatsLocked(p) ==
    /\ calls[p].pc = "idle"
    /\ LET r == check_operation_lock(lock_file, now)
       IN /\ lock_file' = r.file
          /\ \E ok \in BOOLEAN :
                calls' = [calls EXCEPT ![p] =
                   [IdleCall EXCEPT !.op = "stats", !.pc = "done",
                                    !.node_count = IF ok /\ r.result = None
                                                   THEN Len(db.nodes) ELSE 0,
                                    !.relationship_count = IF ok /\ r.result = None
                                                           THEN Len(db.rels) ELSE 0,
                                    !.outcome = IF r.result # None THEN "LockConflict"
                                                ELSE IF ok THEN "ok" ELSE "failed"]]
    /\ UNCHANGED <<database_lock, db, artifact, svc, now, ticks, status_file, warnings_file>>

\* get_database_stats: the counts are read from the database and returned, or
\* the database raises and the call fails; no file of the service is used
GetDatabaseStats(p) ==
    /\ calls[p].pc = "idle"
    /\ \E ok \in BOOLEAN :
          calls' = [calls EXCEPT ![p] =
             [IdleCall EXCEPT !.op = "stats", !.pc = "done",
                              !.node_count = IF ok THEN Len(db.nodes) ELSE 0,
                              !.relationship_count = IF ok THEN Len(db.rels) ELSE 0,
                              !.outcome = IF ok THEN "ok" ELSE "failed"]]
    /\ UNCHANGED <<database_lock, db, artifact, svc, now, ticks, lock_file, status_file, warnings_file>>

\* ------------------------------------------------------------------------
\* Database lock module and write middleware.  The handlers are coroutines
\* without an await between their file operations, so each is one step.

\* _check_lock: result and database.lock afterwards
check_lock(l, t) ==
    IF l.kind = "absent" THEN [result |-> None, file |-> l]
    ELSE IF l.kind = "corrupt" THEN [result |-> None, file |-> l]
    ELSE IF t - l.timestamp >= DB_LOCK_TIMEOUT THEN [result |-> None, file |-> AbsentLock]
    ELSE [result |-> l.operation, file |-> l]

\* bool(lock_operation): None and the empty string are false
Truthy(operation) == operation # None /\ operation # ""

\* the operation names a client sends to POST /database/lock
Operations == {"restore", ""}

\* POST /database/lock: 409 when _check_lock reports an operation, 500 when
\* _acquire_lock returns False (an unexpired or unreadable file), else the
\* record is written
LockDatabase(p) ==
    /\ calls[p].pc = "idle"
    /\ \E operation \in Operations :
          LET r == check_lock(database_lock, now)
              refused == Truthy(r.result)
              acquired == ~refused /\ r.file.kind = "absent"
          IN /\ database_lock' = IF acquired THEN LockRecord(operation, now, p) ELSE r.file
             /\ calls' = [calls EXCEPT ![p] =
                   [IdleCall EXCEPT !.op = "lock", !.pc = "done",
                                    !.lock_operation = r.result,
                                    !.outcome = IF refused THEN "409"
                                                ELSE IF acquired THEN "ok" ELSE "500"]]
    /\ UNCHANGED <<db, artifact, svc, now, ticks, lock_file, status_file, warnings_file>>

\* POST /database/unlock: _release_lock
UnlockDatabase(p) ==
    /\ calls[p].pc = "idle"
    /\ database_lock' = release_lock(database_lock)
    /\ calls' = [calls EXCEPT ![p] = [IdleCall EXCEPT !.op = "unlock", !.pc = "done",
                                                      !.outcome = "ok"]]
    /\ UNCHANGED <<db, artifact, svc, now, ticks, lock_file, status_file, warnings_file>>

\* GET /database/lock-status: is_locked = bool(_check_lock())
LockStatus(p) ==
    /\ calls[p].pc = "idle"
    /\ LET r == check_lock(database_lock, now)
       IN /\ database_lock' = r.file
          /\ calls' = [calls EXCEPT ![p] =
                [IdleCall EXCEPT !.op = "lock-status", !.pc = "done",
                                 !.lock_operation = r.result,
                                 !.outcome = IF Truthy(r.result) THEN "locked"
                                             ELSE "unlocked"]]
    /\ UNCHANGED <<db, artifact, svc, now, ticks, lock_file, status_file, warnings_file>>

\* request methods and URL paths (a path is the list of its segments)
Methods == {"GET", "POST", "PUT", "PATCH", "DELETE"}
Paths == {<<"examples", "1">>, <<"users", "1">>, <<"database", "lock-status">>,
          <<"cache", "key">>, <<"health">>, <<"version">>, <<>>}

\* path.startswith("/database/"), path in ["/health", "/version", "/"],
\* path.startswith("/cache/")
Exempt(path) ==
    \/ Len(path) >= 2 /\ path[1] = "database"
    \/ path \in {<<"health">>, <<"version">>, <<>>}
    \/ Len(path) >= 2 /\ path[1] = "cache"

\* block_writes_during_restore: a request is answered 503 or passed on to its
\* handler (call_next)
Request(p) ==
    /\ calls[p].pc = "idle"
    /\ \E method \in Methods, path \in Paths :
          LET checks == ~Exempt(path) /\ method \in {"POST", "PUT", "PATCH", "DELETE"}
              r == check_lock(database_lock, now)
          IN /\ database_lock' = IF checks THEN r.file ELSE database_lock
             /\ calls' = [calls EXCEPT ![p] =
                   [IdleCall EXCEPT !.op = "request", !.pc = "done",
                                    !.method = method, !.path = path,
                                    !.lock_operation = IF checks THEN r.result ELSE None,
                                    !.outcome = IF checks /\ Truthy(r.result) THEN "503"
                                                ELSE "forwarded"]]
    /\ UNCHANGED <<db, artifact, svc, now, ticks, lock_file, status_file, warnings_file>>

\* ------------------------------------------------------------------------
\* Neo4jBackupService: both workers serve calls concurrently
Next ==
    \/ Tick
    \/ \E p \in Proc : StartBackup(p)
    \/ \E p \in Proc : StartRestore(p)
    \/ \E p \in Proc : StartPoll(p)
    \/ \E p \in Proc : Check(p)
    \/ \E p \in Proc : AcquireRead(p)
    \/ \E p \in Proc : AcquireOpen(p)
    \/ \E p \in Proc : AcquireWrite(p)
    \/ \E p \in Proc : BackupBody(p)
    \/ \E p \in Proc : RestoreInit(p)
    \/ \E p \in Proc : RestoreClearConc(p)
    \/ \E p \in Proc : RestoreStatement(p)
    \/ \E p \in Proc : RestoreCompleted(p)
    \/ \E p \in Proc : RestoreFailed(p)
    \/ \E p \in Proc : Release(p)
    \/ \E p \in Proc : Return(p)

Spec == Init /\ [][Next]_vars

\* BackupService (relational): both workers serve calls concurrently
NextSql ==
    \/ Tick
    \/ \E p \in Proc : RouteRestoreSql(p)
    \/ \E p \in Proc : RouteBackupFile(p)
    \/ \E p \in Proc : StartBackup(p)
    \/ \E p \in Proc : StartRestore(p)
    \/ \E p \in Proc : StartPoll(p)
    \/ \E p \in Proc : Check(p)
    \/ \E p \in Proc : AcquireRead(p)
    \/ \E p \in Proc : AcquireOpen(p)
    \/ \E p \in Proc : AcquireWrite(p)
    \/ \E p \in Proc : BackupBody(p)
    \/ \E p \in Proc : RestoreInit(p)
    \/ \E p \in Proc : RestoreDrop(p)
    \/ \E p \in Proc : RestoreNative(p)
    \/ \E p \in Proc : RestoreFailed(p)
    \/ \E p \in Proc : Release(p)
    \/ \E p \in Proc : Return(p)

SpecSql == InitSql /\ [][NextSql]_vars

\* BackupService (relational): worker 1 serves restore_backup calls one after
\* the other while worker 2 serves the requests of the other clients and of
\* the external backup-restore service
NextWrites ==
    \/ Tick
    \/ StartRestore(1)
    \/ Check(1)
    \/ AcquireRead(1)
    \/ AcquireOpen(1)
    \/ AcquireWrite(1)
    \/ RestoreInit(1)
    \/ RestoreDrop(1)
    \/ RestoreNative(1)
    \/ RestoreFailed(1)
    \/ Release(1)
    \/ Return(1)
    \/ Request(2)
    \/ LockDatabase(2)
    \/ UnlockDatabase(2)
    \/ LockStatus(2)
    \/ Return(2)

SpecWrites == InitSql /\ [][NextWrites]_vars

\* BackupService with DB_TYPE = sqlite: a database file with tables, or none
InitSqlite ==
    /\ database_lock = AbsentLock
    /\ \E file \in {"tables", "absent"} : db = SqliteDb(file, "absent", file)
    /\ artifact = NoArtifact
    /\ svc = "sql"
    /\ now = 0
    /\ ticks = 0
    /\ lock_file = AbsentLock
    /\ status_file = AbsentStatus
    /\ warnings_file = <<>>
    /\ calls = [p \in Proc |-> IdleCall]

\* one worker restores SQLite artifacts one after the other
NextSqlite ==
    \/ Tick
    \/ StartRestore(1)
    \/ Check(1)
    \/ AcquireRead(1)
    \/ AcquireOpen(1)
    \/ AcquireWrite(1)
    \/ RestoreInit(1)
    \/ SqliteDrop(1)
    \/ SqliteRestore(1)
    \/ RestoreFailed(1)
    \/ Release(1)
    \/ Return(1)

SpecSqlite == InitSqlite /\ [][NextSqlite]_vars

\* Neo4jBackupService: one worker serves one call after the other; artifacts
\* of up to MaxStmts statements
NextSeq ==
    \/ Tick
    \/ StartBackup(1)
    \/ StartRestore(1)
    \/ StartPoll(1)
    \/ Check(1)
    \/ AcquireRead(1)
    \/ AcquireOpen(1)
    \/ AcquireWrite(1)
    \/ BackupBody(1)
    \/ RestoreInit(1)
    \/ RestoreClear(1, MaxStmts)
    \/ RestoreStatement(1)
    \/ RestoreCompleted(1)
    \/ RestoreFailed(1)
    \/ Release(1)
    \/ Return(1)

SpecSeq == Init /\ [][NextSeq]_vars

\* Neo4jBackupService: one worker restores long artifacts one after the other
NextLong ==
    \/ Tick
    \/ StartRestore(1)
    \/ Check(1)
    \/ AcquireRead(1)
    \/ AcquireOpen(1)
    \/ AcquireWrite(1)
    \/ RestoreInit(1)
    \/ RestoreClearLong(1)
    \/ RestoreStatement(1)
    \/ RestoreCompleted(1)
    \/ RestoreFailed(1)
    \/ Release(1)
    \/ Return(1)

SpecLong == Init /\ [][NextLong]_vars

\* the graphs of n nodes, any of them with or without label and property (so
\* also several equal nodes), and any relationships among them
NodeKinds == {Node(l, q) : l \in SUBSET Labels, q \in SUBSET Props}
SourceGraphs(n) ==
    {[nodes |-> ns, rels |-> SeqOf(R)] :
        ns \in [1..n -> NodeKinds],
        R \in SUBSET {Rel(i, j) : i \in 1..n, j \in 1..n}}

InitGraph ==
    /\ database_lock = AbsentLock
    /\ \E n \in 0..MaxNodes : db \in SourceGraphs(n)
    /\ artifact = NoArtifact
    /\ svc = "neo4j"
    /\ now = 0
    /\ ticks = 0
    /\ lock_file = AbsentLock
    /\ status_file = AbsentStatus
    /\ warnings_file = <<>>
    /\ calls = [p \in Proc |-> IdleCall]

\* Neo4jBackupService: one worker exports the graph of the store and then
\* restores the artifact
NextGraph ==
    \/ StartBackup(1)
    \/ artifact.exported /\ StartRestore(1)
    \/ Check(1)
    \/ AcquireRead(1)
    \/ AcquireOpen(1)
    \/ AcquireWrite(1)
    \/ GraphExport(1)
    \/ RestoreInit(1)
    \/ GraphRestore(1)
    \/ Release(1)
    \/ Return(1)

SpecGraph == InitGraph /\ [][NextGraph]_vars

\* Neo4jBackupService: a worker formats string values one after the other
NextFormat ==
    \/ FormatValue(1)
    \/ Return(1)

SpecFormat == Init /\ [][NextFormat]_vars

\* Neo4jBackupService: one worker writes artifacts and splits them again
NextStream ==
    \/ WriteArtifact(1)
    \/ ReadArtifact(1)
    \/ Return(1)

SpecStream == Init /\ [][NextStream]_vars

\* Neo4jBackupService: worker 1 serves backup and restore calls one after the
\* other while worker 2 serves the polls of a monitoring client
NextPoll ==
    \/ Tick
    \/ StartBackup(1)
    \/ StartRestore(1)
    \/ Check(1)
    \/ AcquireRead(1)
    \/ AcquireOpen(1)
    \/ AcquireWrite(1)
    \/ BackupBody(1)
    \/ ProgressOpen(1)
    \/ RestoreInit(1)
    \/ RestoreClearConc(1)
    \/ RestoreStatement(1)
    \/ RestoreCompleted(1)
    \/ RestoreFailed(1)
    \/ Release(1)
    \/ Return(1)
    \/ RouteBackupFile(2)
    \/ GetDatabaseStats(2)
    \/ StartStatus(2)
    \/ StatusRead(2)
    \/ Check(2)
    \/ Return(2)

SpecPoll == Init /\ [][NextPoll]_vars

TypeOK ==
    /\ svc \in Service
    /\ lock_file.kind \in {"absent", "corrupt", "valid"}
    /\ status_file.kind \in {"absent", "truncated", "valid"}
    /\ status_file.kind = "absent" => status_file.status = None
    /\ status_file.kind = "valid" => status_file.status # None
    /\ \A p \in Proc : calls[p].i <= calls[p].nstmts

\* ------------------------------------------------------------------------
\* Vocabulary of the properties

\* a lock record is valid iff now - acquired_at < LOCK_TTL
Unexpired(l, t) == l.kind = "valid" /\ t - l.timestamp < LOCK_TIMEOUT
Expired(l, t) == l.kind = "valid" /\ t - l.timestamp >= LOCK_TIMEOUT
\* the lock file holds exactly {operation, timestamp}
HoldsRecord(l, operation, t) ==
    l.kind = "valid" /\ l.operation = operation /\ l.timestamp = t

\* worker p takes the named step of its call
CheckStep(p) == calls[p].pc = "check" /\ calls'[p].pc # "check"
AcquireReadStep(p) == calls[p].pc = "acquire" /\ calls'[p].pc # "acquire"
AcquireWriteStep(p) == calls[p].pc = "acq_write" /\ calls'[p].pc # "acq_write"
ReleaseStep(p) == calls[p].pc = "finally" /\ calls'[p].pc # "finally"

\* p's call is between a successful _acquire_lock and its _release_lock
InFlight(p) == calls[p].acquired /\ calls[p].pc \notin {"idle", "done"}

\* the destructive steps a relational restore has run so far
Destructive(p) == SelectSeq(calls[p].executed, LAMBDA e : e.op \in {"drop", "native"})

\* the statements a graph restore has sent to the database so far
StmtOps(p) == SelectSeq(calls[p].executed, LAMBDA e : e.op = "stmt")

\* the warnings for the failing statements f among k..n, in file order
RECURSIVE WarningsFor(_, _, _)
WarningsFor(k, n, f) ==
    IF k > n THEN <<>>
    ELSE (IF k \in f THEN <<Warning(k, n)>> ELSE <<>>) \o WarningsFor(k + 1, n, f)

\* the string a literal denotes: without its quotes, read left to right, a
\* backslash and the character after it standing for one character
RECURSIVE unescape(_)
unescape(str) ==
    IF str = <<>> THEN <<>>
    ELSE IF Head(str) = "bs" /\ Len(str) >= 2
         THEN LET c == str[2]
                  d == IF c = "n" THEN "nl" ELSE IF c = "r" THEN "cr"
                       ELSE IF c = "t" THEN "tab" ELSE c
              IN <<d>> \o unescape(SubSeq(str, 3, Len(str)))
    ELSE <<Head(str)>> \o unescape(Tail(str))
decode(lit) == unescape(SubSeq(lit, 2, Len(lit) - 1))

\* ------------------------------------------------------------------------
\* C1: mutual exclusion -- at most one create_backup_to_temp or restore_backup
\* call is between its successful lock acquisition and its release.
C1_MutualExclusion == Cardinality({p \in Proc : InFlight(p)}) <= 1

\* C2: acquire returns false and leaves the lock file unchanged when a record
\* with now - timestamp < LOCK_TIMEOUT exists; in every other case it returns
\* true and the lock file afterwards holds exactly {operation, now}.
C2_AcquireContract ==
    [][\A p \in Proc :
         /\ AcquireReadStep(p) =>
              IF Unexpired(lock_file, now)
              THEN /\ ~calls'[p].acquired
                   /\ calls'[p].outcome = "AcquireFailed"
                   /\ lock_file' = lock_file
              ELSE \/ calls'[p].pc = "acq_open"
                   \/ /\ calls'[p].acquired
                      /\ HoldsRecord(lock_file', calls[p].op, now)
         /\ AcquireWriteStep(p) =>
              /\ calls'[p].acquired
              /\ HoldsRecord(lock_file', calls[p].op, calls[p].ts)
      ]_vars

\* C3: check_operation_lock returns the stored operation and leaves the file
\* alone for an unexpired record, deletes an expired record and returns None,
\* and returns None changing nothing when there is no lock file.
C3_CheckContract ==
    [][\A p \in Proc : CheckStep(p) =>
         /\ Unexpired(lock_file, now) =>
              /\ calls'[p].lock_operation = lock_file.operation
              /\ lock_file' = lock_file
         /\ Expired(lock_file, now) =>
              /\ calls'[p].lock_operation = None
              /\ lock_file'.kind = "absent"
         /\ lock_file.kind = "absent" =>
              /\ calls'[p].lock_operation = None
              /\ lock_file' = lock_file
      ]_vars

\* C3 witness: a check has deleted an expired record and returned None
C3_Witness ==
    \E p \in Proc :
       /\ calls[p].pc = "acquire" /\ calls[p].check_unlinked
       /\ calls[p].lock_operation = None /\ lock_file.kind = "absent"

\* C4: self-healing -- once LOCK_TIMEOUT has elapsed since the record was
\* written, check returns None and acquire goes on to return true, although
\* nobody released.
C4_SelfHealing ==
    [][\A p \in Proc :
         /\ (Expired(lock_file, now) /\ CheckStep(p)) =>
               calls'[p].lock_operation = None
         /\ (Expired(lock_file, now) /\ AcquireReadStep(p)) =>
               calls'[p].pc = "acq_open"
         /\ calls[p].pc \in {"acq_open", "acq_write"} =>
               \/ calls'[p].pc \in {"acq_open", "acq_write"}
               \/ calls'[p].acquired
      ]_vars

\* C4 witness: q still holds (it never released) a lock it wrote LOCK_TIMEOUT
\* or more before p wrote its own record, and p has acquired
C4_Witness ==
    \E p \in Proc, q \in Proc :
       /\ p # q /\ InFlight(q) /\ calls[q].ts >= 0
       /\ calls[p].acquired /\ calls[p].ts - calls[q].ts >= LOCK_TIMEOUT
       /\ lock_file = LockRecord(calls[p].op, calls[p].ts, p)

\* C5: release leaves the lock file absent whatever it held, changes nothing
\* and raises nothing when the file is already absent, and a second release
\* changes nothing more.
C5_ReleaseIdempotent ==
    [][\A p \in Proc : ReleaseStep(p) =>
         /\ lock_file'.kind = "absent"
         /\ (lock_file.kind = "absent" => lock_file' = lock_file)
         /\ release_lock(lock_file') = lock_file'
         /\ calls'[p].pc = "done" /\ calls'[p].outcome = calls[p].outcome
         /\ calls'[p].warnings = calls[p].warnings
      ]_vars

\* C5 witness: a release has run on an absent lock file
C5_Witness ==
    \E p \in Proc : calls[p].pc = "done" /\ calls[p].rel_existed = "no"

\* C6: acquire on a corrupt lock file returns true and leaves the valid record
\* {operation, now} behind.
C6_CorruptTreatedAsAbsent ==
    [][\A p \in Proc : (AcquireReadStep(p) /\ lock_file.kind = "corrupt") =>
         \/ calls'[p].pc = "acq_open"
         \/ /\ calls'[p].acquired
            /\ HoldsRecord(lock_file', calls[p].op, now)
      ]_vars

\* C7: a create_backup_to_temp or restore_backup call whose check finds an
\* unexpired lock fails at once, leaves lock file and progress files as they
\* are and has run no database operation.
C7_LockConflict ==
    [][\A p \in Proc :
         (CheckStep(p) /\ calls[p].op \in {"backup", "restore"}
            /\ Unexpired(lock_file, now)) =>
         /\ calls'[p].pc = "done" /\ calls'[p].outcome = "LockConflict"
         /\ lock_file' = lock_file
         /\ status_file' = status_file /\ warnings_file' = warnings_file
         /\ calls'[p].executed = <<>>
      ]_vars

\* C7 witness: a restore was refused because a backup holds the lock, with a
\* progress record of an earlier restore on disk
C7_Witness ==
    \E p \in Proc :
       /\ calls[p].pc = "done" /\ calls[p].outcome = "LockConflict"
       /\ calls[p].op = "restore" /\ calls[p].lock_operation = "backup"
       /\ lock_file.kind = "valid" /\ status_file.kind = "valid"

\* C8: every call that has acquired the lock has released it when it ends.
C8_ReleasedOnEveryExit ==
    \A p \in Proc :
       (calls[p].pc = "done" /\ calls[p].acquired) => calls[p].rel_existed # "unset"

\* C9: when a restore_backup call for an existing artifact ends, the artifact
\* file no longer exists.
C9_ArtifactDeletedOnEveryExit ==
    \A p \in Proc :
       (calls[p].pc = "done" /\ calls[p].op = "restore"
          /\ calls[p].outcome # "FileNotFound") => ~calls[p].file_exists

\* C10: graph restore sends each of the N statements once, in file order,
\* whatever fails; no statement failure aborts the call; it ends completed
\* with one warning per failed statement naming its 1-based index and N.
C10_RestoreFaultTolerance ==
    \A p \in Proc :
       (calls[p].op = "restore") =>
       LET c == calls[p]
           looping == c.pc = "r_loop"
           finished == c.pc = "finally" /\ c.outcome = "ok"
       IN /\ (looping \/ finished) =>
                StmtOps(p) = [k \in 1..c.i |-> DbOp("stmt", k, k \notin c.fails)]
          /\ finished =>
                /\ c.i = c.nstmts
                /\ Len(SelectSeq(StmtOps(p), LAMBDA e : e.ok))
                      = c.nstmts - Cardinality(c.fails)
                /\ (Cardinality(c.fails) <= max_warnings_to_collect =>
                      c.warnings = WarningsFor(1, c.nstmts, c.fails))
                /\ status_file.status = "completed"
          /\ (c.pc = "r_except" \/ (c.pc = "finally" /\ c.outcome = "failed")) =>
                StmtOps(p) = <<>>

\* C10 witness: a restore of several statements, one of them failing, has
\* completed with one warning
C10_Witness ==
    \E p \in Proc :
       /\ calls[p].pc = "finally" /\ calls[p].outcome = "ok"
       /\ calls[p].nstmts >= 2 /\ Cardinality(calls[p].fails) = 1
       /\ Len(calls[p].warnings) = 1

\* ------------------------------------------------------------------------
\* C11: a relational restore for which a safety backup is requested runs no
\* table drop and no native restore once the safety backup has failed, runs
\* them only after the safety backup was created, and, unless it was refused
\* before its body (artifact missing, lock held), ends with the safety backup
\* either created or reported as failed.
C11_SafetyBackupGating ==
    \A p \in Proc :
       (calls[p].op = "restore" /\ calls[p].safety # "none"
          /\ calls[p].safety # "not_requested") =>
       /\ (calls[p].safety = "failed" => Destructive(p) = <<>>)
       /\ (Destructive(p) # <<>> => calls[p].safety = "created")
       /\ (calls[p].pc = "done"
             /\ calls[p].outcome \notin {"FileNotFound", "LockConflict", "AcquireFailed"})
            => calls[p].safety \in {"created", "failed"}

\* ------------------------------------------------------------------------
\* C12: a restore_backup call that has acquired the lock first persists status
\* in_progress; while it runs, each of its progress updates finds in_progress
\* and leaves in_progress, completed or failed; when it ends the persisted
\* status is completed if it returns and failed if it raises; and no step
\* deletes the record.
C12_ProgressLifecycle ==
    [][/\ status_file.kind = "valid" => status_file'.kind = "valid"
       /\ \A p \in Proc :
            /\ (calls[p].pc = "r_init" /\ calls'[p].pc # "r_init") =>
                  status_file'.status = "in_progress"
            /\ (calls[p].pc \in {"r_clear", "r_drop", "r_native", "r_loop", "r_except"}
                  /\ calls'[p] # calls[p] /\ status_file' # status_file) =>
                  /\ status_file.status = "in_progress"
                  /\ status_file'.status \in {"in_progress", "completed", "failed"}
            /\ (ReleaseStep(p) /\ calls[p].op = "restore") =>
                  status_file.status =
                     IF calls[p].outcome = "ok" THEN "completed" ELSE "failed"
      ]_vars

\* ------------------------------------------------------------------------
\* C13: get_restore_status returns None exactly when no progress record has
\* ever been written; otherwise it returns the record written last, with
\* lock_operation the result of check_operation_lock at that moment and
\* is_locked true iff that result is not None.
C13_GetRestoreStatus ==
    [][\A p \in Proc :
         /\ (calls[p].pc = "s_read" /\ calls'[p].pc # "s_read") =>
               /\ (calls'[p].status_data = AbsentStatus) <=> (status_file.status = None)
               /\ (status_file.kind = "valid" => calls'[p].status_data = status_file)
         /\ (CheckStep(p) /\ calls[p].op = "status") =>
               calls'[p].lock_operation = check_operation_lock(lock_file, now).result
      ]_vars

\* ------------------------------------------------------------------------
\* C14: a progress update overwrites the status record and the warnings list,
\* so the warnings get_restore_status returns are those of the record it
\* returns: as many as its warnings_count says.
C14_UpdateOverwritesWarnings ==
    \A p \in Proc :
       (calls[p].op = "status" /\ calls[p].pc \in {"check", "done"}
          /\ calls[p].status_data # AbsentStatus) =>
       Len(calls[p].status_warnings) = calls[p].status_data.warnings_count

\* ------------------------------------------------------------------------
\* C15: during and after a graph restore the collected warnings and the
\* persisted warnings list hold at most 100 entries, and the statements after
\* the 100th failure are still sent, one by one, to the end of the artifact.
C15_WarningsCapped ==
    \A p \in Proc :
       /\ Len(calls[p].warnings) <= max_warnings_to_collect
       /\ Len(warnings_file) <= max_warnings_to_collect
       /\ calls[p].pc = "r_loop" => Len(StmtOps(p)) = calls[p].i
       /\ (calls[p].op = "restore" /\ calls[p].pc = "finally" /\ calls[p].outcome = "ok") =>
             /\ Len(StmtOps(p)) = calls[p].nstmts
             /\ Len(calls[p].warnings) =
                   IF Cardinality(calls[p].fails) <= max_warnings_to_collect
                   THEN Cardinality(calls[p].fails) ELSE max_warnings_to_collect

\* C15 witness: a restore with more than 100 failed statements has completed
\* with 100 warnings collected and persisted
C15_Witness ==
    \E p \in Proc :
       /\ calls[p].pc = "finally" /\ calls[p].outcome = "ok"
       /\ Cardinality(calls[p].fails) > max_warnings_to_collect
       /\ Len(StmtOps(p)) = calls[p].nstmts
       /\ Len(calls[p].warnings) = max_warnings_to_collect
       /\ Len(warnings_file) = max_warnings_to_collect

\* ------------------------------------------------------------------------
\* C16: after the artifact exported from a graph has been restored, the store
\* holds as many nodes and as many relationships as the graph it was exported
\* from.
C16_RoundTripPreservesSize ==
    \A p \in Proc :
       (calls[p].op = "restore" /\ calls[p].pc = "done" /\ calls[p].outcome = "ok") =>
       /\ Len(db.nodes) = Len(artifact.source.nodes)
       /\ Len(db.rels) = Len(artifact.source.rels)

\* ------------------------------------------------------------------------
\* C17: for every string over backslash, double quote, newline, carriage
\* return, tab and letters, decoding _format_value(s) by the inverse escape
\* rules yields s, and the literal starts and ends with a double quote.
C17_StringRoundTrip ==
    \A p \in Proc :
       (calls[p].op = "format" /\ calls[p].pc = "done") =>
       /\ decode(calls[p].formatted) = calls[p].value
       /\ Head(calls[p].formatted) = "dq"
       /\ calls[p].formatted[Len(calls[p].formatted)] = "dq"

\* C17 witness: a string with a backslash before the letter n and a double
\* quote has been formatted
C17_Witness ==
    \E p \in Proc :
       /\ calls[p].op = "format" /\ calls[p].pc = "done"
       /\ calls[p].value = <<"bs", "n", "dq">>
       /\ calls[p].formatted = <<"dq", "bs", "bs", "n", "bs", "dq", "dq">>

\* ------------------------------------------------------------------------
\* C18: a download, delete or restore request for a filename that resolves
\* outside the backup directory ends with a validation error and touches no
\* file.
C18_PathTraversalRejected ==
    \A p \in Proc :
       (calls[p].pc = "done" /\ calls[p].filename = "../../etc/passwd") =>
       /\ calls[p].outcome = "ValidationError"
       /\ ~calls[p].file_touched

\* ------------------------------------------------------------------------
\* C19: whatever the lock file holds, get_database_stats ends without a lock
\* conflict and leaves lock file, status file and warnings file as they are,
\* and get_restore_status ends with a result, not with a lock conflict.
C19_ReadsNotBlocked ==
    [][\A p \in Proc :
         /\ (calls[p].pc = "idle" /\ calls'[p].op = "stats") =>
               /\ calls'[p].pc = "done"
               /\ calls'[p].outcome \in {"ok", "failed"}
               /\ lock_file' = lock_file
               /\ status_file' = status_file /\ warnings_file' = warnings_file
         /\ (calls[p].op = "status" /\ CheckStep(p)) =>
               /\ calls'[p].pc = "done" /\ calls'[p].outcome = "ok"
               /\ status_file' = status_file /\ warnings_file' = warnings_file
      ]_vars

\* C19 witness: the statistics were returned while a restore holds an
\* unexpired lock
C19_Witness ==
    \E p \in Proc, q \in Proc :
       /\ calls[p].pc = "done" /\ calls[p].op = "stats" /\ calls[p].outcome = "ok"
       /\ InFlight(q) /\ calls[q].op = "restore" /\ calls[q].pc = "r_loop"
       /\ Unexpired(lock_file, now) /\ lock_file.operation = "restore"

C21_ProgressCadence ==
    [][\A p \in Proc :
         (calls[p].pc = "r_loop" /\ calls'[p].pc = "r_loop"
            /\ calls'[p].i = calls[p].i + 1
            /\ calls'[p].i % progress_every = 0) =>
         /\ status_file'.status = "in_progress"
         /\ status_file'.current = calls'[p].i
      ]_vars

\* ------------------------------------------------------------------------
\* C22: in a relational restore the native restore runs only after the tables
\* were dropped; a failed drop leads to the except clause, which persists
\* status failed and re-raises, and then to the finally clause, which removes
\* the lock file.
C22_SchemaWipeFatal ==
    [][\A p \in Proc :
         /\ (calls[p].pc = "r_drop" /\ calls'[p].pc # "r_drop") =>
               \/ calls'[p].pc = "r_except" /\ Destructive(p)' = <<>>
               \/ calls'[p].pc = "r_native" /\ Len(Destructive(p)') = 1
                                             /\ Destructive(p)'[1].op = "drop"
         /\ (calls[p].pc = "r_except" /\ calls'[p].pc # "r_except") =>
               /\ calls'[p].pc = "finally"
               /\ calls'[p].outcome = "failed"
               /\ status_file'.status = "failed"
               /\ Destructive(p)' = Destructive(p)
         /\ (calls[p].pc = "finally" /\ calls'[p].pc # "finally") =>
               /\ calls'[p].pc = "done"
               /\ calls'[p].outcome = calls[p].outcome
               /\ lock_file'.kind = "absent"
      ]_vars

\* C22 witness: a relational restore whose drop failed is in its finally
\* clause: nothing destructive ran, the call raises and the status is failed
C22_Witness ==
    \E p \in Proc :
       /\ svc = "sql" /\ calls[p].op = "restore" /\ calls[p].pc = "finally"
       /\ calls[p].acquired /\ calls[p].outcome = "failed"
       /\ Destructive(p) = <<>>
       /\ status_file.status = "failed"

\* ------------------------------------------------------------------------
\* C23: the statements restore_backup derives from a written artifact are the
\* statements the exporter emitted, each without its terminator, in the same
\* number and order, whatever characters the property strings contain.
C23_StatementStreamRoundTrip ==
    \A p \in Proc :
       (calls[p].op = "stream" /\ calls[p].pc = "done") =>
       calls[p].formatted =
          [k \in 1..Len(calls[p].value) |->
              SubSeq(calls[p].value[k], 1, Len(calls[p].value[k]) - 1)]

\* ------------------------------------------------------------------------
\* C24: in a graph restore the clear is the first database operation, it runs
\* once, in a call whose _acquire_lock returned True and whose artifact has been
\* read, and every replayed statement comes after it; a call that leaves the
\* read step through the except clause has run no database operation.
C24_ClearOrdering ==
    [][\A p \in Proc :
         /\ (calls'[p].executed # <<>>) =>
               /\ calls'[p].acquired /\ calls'[p].file_exists
               /\ calls'[p].executed[1].op = "clear"
               /\ \A k \in 2..Len(calls'[p].executed) : calls'[p].executed[k].op = "stmt"
         /\ (calls[p].executed = <<>> /\ calls'[p].executed # <<>>) =>
               /\ calls[p].pc = "r_clear" /\ calls'[p].pc = "r_loop"
               /\ calls'[p].i = 0
         /\ (calls[p].pc = "r_clear" /\ calls'[p].pc = "r_except") =>
               calls'[p].executed = <<>>
         /\ (calls[p].pc = "r_except" /\ calls[p].executed = <<>>) =>
               calls'[p].executed = <<>>
      ]_vars

\* C24 witness: a restore that holds the lock has cleared the graph and then
\* replayed its first statement
C24_Witness ==
    \E p \in Proc :
       /\ svc = "neo4j" /\ calls[p].op = "restore" /\ calls[p].pc = "r_loop"
       /\ calls[p].acquired
       /\ Len(calls[p].executed) = 2
       /\ calls[p].executed[1].op = "clear" /\ calls[p].executed[2].op = "stmt"

\* ------------------------------------------------------------------------
\* the reference encoder: each character of the source string on its own
escape_char(c) ==
    CASE c = "bs" -> <<"bs", "bs">>
      [] c = "dq" -> <<"bs", "dq">>
      [] c = "nl" -> <<"bs", "n">>
      [] c = "cr" -> <<"bs", "r">>
      [] c = "tab" -> <<"bs", "t">>
      [] OTHER -> <<c>>

RECURSIVE reference_encoding(_)
reference_encoding(str) ==
    IF str = <<>> THEN <<>>
    ELSE escape_char(Head(str)) \o reference_encoding(Tail(str))

\* C25: for every string, _format_value is the character-by-character
\* reference encoding between two double quotes: a backslash inserted by a
\* later replacement is not escaped again.
C25_EscapeOrder ==
    \A p \in Proc :
       (calls[p].op = "format" /\ calls[p].pc = "done") =>
       calls[p].formatted =
          <<"dq">> \o reference_encoding(calls[p].value) \o <<"dq">>

\* C25 witness: a string with a newline, a backslash and a tab has been
\* formatted; the backslashes of the two escapes stand alone
C25_Witness ==
    \E p \in Proc :
       /\ calls[p].op = "format" /\ calls[p].pc = "done"
       /\ calls[p].value = <<"nl", "bs", "tab">>
       /\ calls[p].formatted = <<"dq", "bs", "n", "bs", "bs", "bs", "t", "dq">>

\* ------------------------------------------------------------------------
\* C26: when a call runs _release_lock, the lock file is absent or holds the
\* record this call's own _acquire_lock wrote.
C26_LockOwnership ==
    [][\A p \in Proc :
         ReleaseStep(p) =>
            \/ lock_file.kind = "absent"
            \/ lock_file.kind = "valid" /\ lock_file.owner = p
      ]_vars

\* ------------------------------------------------------------------------
\* C27: whenever the persisted status is in_progress the lock file holds a
\* restore record, and a get_restore_status call that returns status
\* in_progress returns lock_operation = "restore" with it.
C27_StatusLockConsistency ==
    /\ (status_file.kind = "valid" /\ status_file.status = "in_progress") =>
          (lock_file.kind = "valid" /\ lock_file.operation = "restore")
    /\ \A q \in Proc :
          (calls[q].op = "status" /\ calls[q].pc = "done"
             /\ calls[q].status_data.status = "in_progress") =>
          calls[q].lock_operation = "restore"

\* ------------------------------------------------------------------------
\* C28: every persisted progress record has 0 <= current <= total; a completed
\* record has current = total; and while a graph restore is in its loop the
\* total stays the statement count and current does not decrease.
C28_ProgressCounters ==
    [][/\ status_file'.kind = "valid" =>
             /\ 0 <= status_file'.current
             /\ status_file'.current <= status_file'.total
             /\ status_file'.status = "completed" =>
                   status_file'.current = status_file'.total
       /\ \A p \in Proc :
             (calls[p].pc = "r_loop" /\ calls'[p].pc = "r_loop") =>
                /\ status_file'.status = "in_progress"
                /\ status_file'.total = calls[p].nstmts
                /\ status_file'.current >= status_file.current
                /\ status_file'.current <= calls'[p].i
      ]_vars

\* C28 witness: a restore of more than 100 statements has persisted the
\* record for statement 100 and gone on
C28_Witness ==
    \E p \in Proc :
       /\ calls[p].op = "restore" /\ calls[p].pc = "r_loop"
       /\ calls[p].i > progress_every
       /\ status_file.status = "in_progress"
       /\ status_file.current = progress_every
       /\ status_file.total = calls[p].nstmts

\* ------------------------------------------------------------------------
\* C29: while database.lock holds an unexpired record, whatever operation
\* name it was written with, lock-status answers is_locked = true, a write
\* request to an ordinary path is answered 503, and a further POST
\* /database/lock is answered 409 and leaves the record unchanged.
C29_WriteLockConsistency ==
    [][\A p \in Proc :
         (database_lock.kind = "valid" /\ now - database_lock.timestamp < DB_LOCK_TIMEOUT
            /\ calls[p].pc = "idle") =>
         /\ calls'[p].op = "lock-status" => calls'[p].outcome = "locked"
         /\ (calls'[p].op = "request"
               /\ calls'[p].method \in {"POST", "PUT", "PATCH", "DELETE"}
               /\ ~Exempt(calls'[p].path)) => calls'[p].outcome = "503"
         /\ calls'[p].op = "lock" =>
               (calls'[p].outcome = "409" /\ database_lock' = database_lock)
      ]_vars

\* ------------------------------------------------------------------------
\* C30: when a SQLite restore of an existing database file fails while it
\* replaces the file, the file afterwards has the content it had before
\* restore_backup was called.
C30_SqliteRollback ==
    [][\A p \in Proc :
         (svc = "sql" /\ calls[p].pc = "r_native" /\ calls'[p].pc = "r_except"
            /\ db.before # "absent") =>
         db'.file = db.before
      ]_vars

====
